---- MODULE Spec2Model ----
(***************************************************************************)
(* EDGAR morning scan: src/edgar_scan.py (build_summary, its enrichment    *)
(* helpers, email_report and the __main__ block) and the sentiment helper  *)
(* of the earlier variant, src/main.py (enrich).                           *)
(*                                                                         *)
(* Python values are tagged records: None, S(str), L(list).  A dict is a   *)
(* function whose DOMAIN is the set of keys present, so that               *)
(* `"k" in d` is `"k" \in DOMAIN d` and a key present with JSON null is    *)
(* a key mapped to None.  An expression that raises evaluates to Raise(e). *)
(***************************************************************************)
EXTENDS Integers, Sequences, FiniteSets, TLC

\* ------------------------------------------------------------------
\* Python values
\* ------------------------------------------------------------------
None == [t |-> "None"]
S(s) == [t |-> "str", v |-> s]
L(l) == [t |-> "list", v |-> l]
Raise(e) == [t |-> "raise", v |-> e]
IsRaise(x) == x.t = "raise"
EmptyDict == [k \in {} |-> None]

\* bool(x) for the values that occur: None, "" and [] are falsy
Truthy(x) == CASE x.t = "None" -> FALSE
               [] x.t = "str"  -> x.v # ""
               [] x.t = "list" -> x.v # <<>>
\* a or b
Or(a, b) == IF Truthy(a) THEN a ELSE b
\* d.get(k)  and  d.get(k, dflt)
Get(d, k) == IF k \in DOMAIN d THEN d[k] ELSE None
GetD(d, k, dflt) == IF k \in DOMAIN d THEN d[k] ELSE dflt
\* x[0]: TypeError on None, IndexError on an empty list
Subscript0(x) == CASE x.t = "None" -> Raise("TypeError")
                   [] x.t = "list" -> IF x.v = <<>> THEN Raise("IndexError") ELSE x.v[1]
\* (d.get(k) or [{}])[0]: the first sub-record, {} when the list is absent, null or empty
FirstOf(d, k) == Subscript0(Or(Get(d, k), L(<<EmptyDict>>)))

\* ------------------------------------------------------------------
\* Bounds of the model
\* ------------------------------------------------------------------
\* filings returned over the three category queries of one run
MaxFilings == 2
\* filer sub-records attached to one filing of the field-level domain
MaxFilers == 2

\* ------------------------------------------------------------------
\* Fixed strings of the program
\* ------------------------------------------------------------------
\* FORMS.items(): a dict iterates in insertion order
FORMS == <<"8-K", "13D/13G", "DEF 14A">>
YESTERDAY == "2026-10-31"
NA == "n/a"
NoHeadline == "No headline"
DirectionUnclear == "Direction unclear"
UnableToRetrieve == "Unable to retrieve filing text."
BestWay == "Consider short-dated ATM straddles for volatility, or directional equity/option plays if thesis is clear"

\* ------------------------------------------------------------------
\* list(set(tickers)): the iteration order of a set of str depends on the
\* interpreter's string-hash seed, which is drawn when the process starts
\* (PYTHONHASHSEED unset).  A seed is modelled by the order it induces on
\* the values that can share a set.
\* ------------------------------------------------------------------
HashedVals == {None, S("AAA"), S("BBB")}
Seeds == {s \in [1..Cardinality(HashedVals) -> HashedVals] :
             \A i, j \in DOMAIN s : i # j => s[i] # s[j]}
SeqToSet(xs) == {xs[i] : i \in DOMAIN xs}
SetToList(seed, xs) ==
    IF xs = {} THEN <<>>
    ELSE IF Cardinality(xs) = 1 THEN <<CHOOSE x \in xs : TRUE>>
    ELSE SelectSeq(seed, LAMBDA v : v \in xs)

\* ------------------------------------------------------------------
\* get_tickers_from_filing (edgar_scan.py 110-117)
\* ------------------------------------------------------------------
HasTicker(f) == "ticker" \in DOMAIN f
\* lines 111-116: the tickers appended, in order, duplicates kept
CollectTickers(filing) ==
    LET filers == GetD(filing, "filers", L(<<>>))
        withT  == SelectSeq(filers.v, HasTicker)
        fromF  == [i \in 1..Len(withT) |-> withT[i]["ticker"]]
    IN  IF fromF = <<>> /\ "ticker" \in DOMAIN filing
        THEN <<filing["ticker"]>> ELSE fromF
\* the whole function: iterating filers = None raises TypeError
get_tickers_from_filing(filing, seed) ==
    IF GetD(filing, "filers", L(<<>>)).t = "None" THEN Raise("TypeError")
    ELSE L(SetToList(seed, SeqToSet(CollectTickers(filing))))

\* ------------------------------------------------------------------
\* field extraction of build_summary (edgar_scan.py 157-175)
\* ------------------------------------------------------------------
\* lines 157-160
CikOf(doc) == Or(Get(doc, "cik"), GetD(FirstOf(doc, "filers"), "cik", S("")))
\* lines 161-164
AccessionOf(doc) ==
    Or(Get(doc, "accessionNo"), GetD(FirstOf(doc, "filers"), "accessionNo", S("")))
\* lines 166-171
CompanyName(doc) ==
    Or(Or(Or(Get(doc, "companyName"),
             Get(FirstOf(doc, "issuers"), "name")),
          Get(FirstOf(doc, "filers"), "name")),
       S(NA))
\* line 174: doc.get("description") or doc.get("items", [""])[0] or "No headline"
Headline(doc) ==
    LET desc == Get(doc, "description") IN
    IF Truthy(desc) THEN desc
    ELSE LET first == Subscript0(GetD(doc, "items", L(<<S("")>>))) IN
         IF IsRaise(first) THEN first ELSE Or(first, S(NoHeadline))
\* a str built by concatenation, kept as the sequence of its pieces
Pieces(ps) == [t |-> "pieces", v |-> ps]
\* sep.join(xs): the pieces of the joined string; TypeError on a non-str item
RECURSIVE JoinPieces(_, _)
JoinPieces(sep, xs) ==
    IF Len(xs) = 1 THEN <<xs[1].v>>
    ELSE <<xs[1].v, sep>> \o JoinPieces(sep, Tail(xs))
Join(sep, xs) ==
    IF \E i \in DOMAIN xs : xs[i].t # "str" THEN Raise("TypeError")
    ELSE Pieces(IF xs = <<>> THEN <<>> ELSE JoinPieces(sep, xs))
\* line 175
TickerStr(tickers) == IF tickers # <<>> THEN Join(", ", tickers) ELSE Pieces(<<NA>>)

\* lines 157-175 in program order; the first expression that raises ends the
\* run (Raise names it: line 173, 174 or 175)
Extract(doc, seed) ==
    LET tk == get_tickers_from_filing(doc, seed)
        hl == Headline(doc)
        ts == IF IsRaise(tk) THEN tk ELSE TickerStr(tk.v)
    IN  IF IsRaise(tk) THEN Raise("get_tickers_from_filing")
        ELSE IF IsRaise(hl) THEN Raise("headline")
        ELSE IF IsRaise(ts) THEN Raise("join")
        ELSE [t |-> "ok", cik |-> CikOf(doc), accession_no |-> AccessionOf(doc),
              company_name |-> CompanyName(doc).v, tickers |-> tk.v,
              headline |-> hl.v, ticker_str |-> ts.v]

\* ------------------------------------------------------------------
\* quick_sentiment (edgar_scan.py 119-133).  The price history is modelled
\* by what the function reads of it: the lookup fails (any exception of
\* lines 121-124), or iv_pct is NaN, or iv_pct is a number (in tenths).
\* ------------------------------------------------------------------
Fail == [t |-> "fail"]
SmallBelow == 3
ModerateBelow == 6
HistoryReplies == {Fail, [t |-> "nan"]} \cup {[t |-> "num", v |-> n] : n \in {2, 3, 5, 6, 9}}
\* the replies of a whole run: the lookup fails or it succeeds
RunHistory == {Fail, [t |-> "num", v |-> 5]}
\* mutant: the body of quick_sentiment without its try/except
quick_sentiment_NoExcept(hist) ==
    CASE hist.t = "fail" -> Raise("history")
      [] hist.t = "nan"  -> S("Large move expected")
      [] hist.t = "num"  -> IF hist.v < SmallBelow THEN S("Small move expected")
                            ELSE IF hist.v < ModerateBelow THEN S("Moderate move expected")
                            ELSE S("Large move expected")
quick_sentiment(hist) ==
    CASE hist.t = "fail" -> S(DirectionUnclear)
      [] hist.t = "nan"  -> S("Large move expected")
      [] hist.t = "num"  -> IF hist.v < SmallBelow THEN S("Small move expected")
                            ELSE IF hist.v < ModerateBelow THEN S("Moderate move expected")
                            ELSE S("Large move expected")

\* ------------------------------------------------------------------
\* _get_filing_text (edgar_scan.py 32-71)
\* ------------------------------------------------------------------
CikValue == "0000012345"
AccValue == "0000012345-26-000001"
\* str(x).zfill(10) of the "cik" entry of get_info()
Zfill10(x) == CASE x = None -> "000000None"
                [] x = S("12345") -> "0000012345"
\* cik.lstrip("0")
LStrip0(c) == CASE c = "0000012345" -> "12345"
                [] c = "000000None" -> "None"
                [] OTHER -> c
\* accession_no.replace("-", "")
NoDash(a) == CASE a = "0000012345-26-000001" -> "000001234526000001"
               [] OTHER -> a
\* line 51: the pieces of the index URL
IndexUrl(cik, acc) == <<LStrip0(cik), NoDash(acc), acc>>
\* get_info(): fails, or a dict with or without "cik"
InfoReplies == {Fail, [t |-> "dict", v |-> EmptyDict], [t |-> "dict", v |-> [cik |-> S("12345")]]}
\* the index page: the request fails, or the links re.findall finds on it
DocLink == "/Archives/edgar/data/12345/000001234526000001/doc.htm"
IndexReplies == {Fail, [t |-> "page", links |-> <<>>], [t |-> "page", links |-> <<DocLink, "/Archives/edgar/data/12345/000001234526000001/ex99.htm">>]}
\* the document: the request fails, or its markup
DocReplies == {Fail, [t |-> "page", text |-> "<html> </html>"], [t |-> "page", text |-> "<p>Item 1.01  Entry into agreement</p>"]}
\* lines 65-66: tags replaced by blanks, whitespace collapsed, first 1500 characters
Clean(markup) == CASE markup = "<html> </html>" -> ""
                   [] markup = "<p>Item 1.01  Entry into agreement</p>" -> "Item 1.01 Entry into agreement"
NoCalls == [history |-> 0, info |-> 0, index |-> 0, document |-> 0, chat |-> 0]
\* the value returned and the upstream calls made, given the replies
\* the upstreams would give
get_filing_text(accession_no, cik, ticker, info, idx, docr) ==
    LET missing  == ~Truthy(cik) \/ ~Truthy(accession_no)
        lookup   == missing /\ ticker # ""
        cik2     == IF lookup /\ info.t # "fail"
                    THEN S(Zfill10(Get(info.v, "cik"))) ELSE cik
        c1       == [NoCalls EXCEPT !.info = IF lookup THEN 1 ELSE 0]
    IN  IF lookup /\ info.t = "fail" THEN [t |-> "ok", text |-> "", calls |-> c1, url |-> <<>>]
        ELSE IF missing /\ (~Truthy(cik2) \/ ~Truthy(accession_no))
             THEN [t |-> "ok", text |-> "", calls |-> c1, url |-> <<>>]
        ELSE LET c2  == [c1 EXCEPT !.index = 1]
                 url == IndexUrl(cik2.v, accession_no.v) IN
             IF idx.t = "fail" \/ idx.links = <<>> THEN [t |-> "ok", text |-> "", calls |-> c2, url |-> url]
             ELSE LET c3 == [c2 EXCEPT !.document = 1] IN
                  IF docr.t = "fail" THEN [t |-> "ok", text |-> "", calls |-> c3, url |-> url]
                  ELSE [t |-> "ok", text |-> Clean(docr.text), calls |-> c3, url |-> url]

\* ------------------------------------------------------------------
\* _summarize (edgar_scan.py 73-95)
\* ------------------------------------------------------------------
\* the completion: the call fails, or a message whose content is None or text
ChatReplies == {Fail, [t |-> "msg", content |-> None],
                [t |-> "msg", content |-> S(" The company entered into an agreement. ")]}
\* the replies of a whole run: the call fails or it succeeds
RunChat == {Fail, [t |-> "msg", content |-> S(" The company entered into an agreement. ")]}
\* str.strip()
Strip(c) == CASE c = " The company entered into an agreement. " -> "The company entered into an agreement."
\* line 95
SummaryUnavailable(e) == <<"Summary unavailable (", e, ").">>
\* mutant: _summarize without the empty-text guard of lines 74-75
summarize_NoGuard(text, keyDefined, chat) ==
    IF ~keyDefined
    THEN [t |-> "ok", summary |-> SummaryUnavailable("name 'MOONSHOT_API_KEY' is not defined"), called |-> 0]
    ELSE IF chat.t = "fail"
         THEN [t |-> "ok", summary |-> SummaryUnavailable("Connection error."), called |-> 1]
    ELSE IF chat.content.t = "None"
         THEN [t |-> "ok", summary |-> SummaryUnavailable("'NoneType' object has no attribute 'strip'"), called |-> 1]
    ELSE [t |-> "ok", summary |-> <<Strip(chat.content.v)>>, called |-> 1]
\* the value returned and whether the remote service was called.  keyDefined:
\* whether the name MOONSHOT_API_KEY of line 84 is bound; evaluating an
\* unbound name raises NameError inside the try, before the client is built.
summarize(text, keyDefined, chat) ==
    IF text = "" THEN [t |-> "ok", summary |-> <<UnableToRetrieve>>, called |-> 0]
    ELSE IF ~keyDefined
         THEN [t |-> "ok", summary |-> SummaryUnavailable("name 'MOONSHOT_API_KEY' is not defined"), called |-> 0]
    ELSE IF chat.t = "fail"
         THEN [t |-> "ok", summary |-> SummaryUnavailable("Connection error."), called |-> 1]
    ELSE IF chat.content.t = "None"
         THEN [t |-> "ok", summary |-> SummaryUnavailable("'NoneType' object has no attribute 'strip'"), called |-> 1]
    ELSE [t |-> "ok", summary |-> <<Strip(chat.content.v)>>, called |-> 1]

\* ------------------------------------------------------------------
\* Filing records the filing source may return
\* ------------------------------------------------------------------
Field(k, vals) == {EmptyDict} \cup {k :> v : v \in vals}
LongDescription == "Entry into a Material Definitive Agreement ... (130 characters)"
\* headline[:120]
Slice120(h) == IF h = LongDescription
               THEN "Entry into a Material Definitive Agreement ... (first 120 characters)"
               ELSE h
\* doc['filedAt'][:10]
Slice10(ts) == IF ts = "2026-10-31T16:05:00-04:00" THEN "2026-10-31" ELSE ts
Filed == [filedAt |-> S("2026-10-31T16:05:00-04:00")]
FilerA == [ticker |-> S("AAA"), name |-> S("Alpha Holdings"), cik |-> S(CikValue)]
FilerB == [ticker |-> S("BBB"), name |-> S("Beta Partners")]
\* the filings of a whole run (Spec)
RunDocs ==
    { Filed,
      Filed @@ [description |-> S(LongDescription), companyName |-> S("Acme Co"),
                cik |-> S(CikValue), accessionNo |-> S(AccValue)],
      Filed @@ [items |-> L(<<S("Item 1.01")>>), ticker |-> S("AAA"),
                accessionNo |-> S(AccValue)],
      Filed @@ [items |-> L(<<>>)] }
\* the filings of the two stubbed runs (SpecTwice)
TwiceDocs ==
    { Filed,
      Filed @@ [description |-> S("Amendment"), filers |-> L(<<FilerA, FilerB>>),
                accessionNo |-> S(AccValue)],
      Filed @@ [filers |-> L(<<FilerA>>), accessionNo |-> S(AccValue)] }
\* every combination of the optional fields absent, null, empty or set (SpecFields)
FilerRecs == {[name |-> S("Gamma Fund"), accessionNo |-> S(AccValue)], [ticker |-> None], FilerA, FilerB}
FilerLists == UNION {[1..n -> FilerRecs] : n \in 0..MaxFilers}
Filings ==
    { Filed @@ d @@ i @@ c @@ t @@ k @@ a @@ s @@ f :
        d \in Field("description", {None, S(""), S("Amendment")}),
        i \in Field("items", {None, L(<<>>), L(<<S("Item 1.01")>>)}),
        c \in Field("companyName", {S(""), S("Acme Co")}),
        t \in Field("ticker", {None, S(""), S("AAA")}),
        k \in Field("cik", {None, S(CikValue)}),
        a \in Field("accessionNo", {S(AccValue)}),
        s \in Field("issuers", {None, L(<<[name |-> S("Issuer Corp")]>>)}),
        f \in Field("filers", {None} \cup {L(l) : l \in FilerLists}) }
\* api.get_filings(q): raises, or a dict with or without "filings"
QueryReplies(docs, max) ==
    {Fail, [t |-> "dict", v |-> EmptyDict]}
    \cup {[t |-> "dict", v |-> [filings |-> L(h)]] : h \in UNION {[1..n -> docs] : n \in 0..max}}

\* ------------------------------------------------------------------
\* State
\* ------------------------------------------------------------------
VARIABLES
    pc,        \* position of the process
    formIdx,   \* index into FORMS of the category being processed
    hits,      \* filings of the current category not yet iterated
    docNo,     \* filings of the current category already taken from hits
    cur,       \* locals of the current iteration of the inner loop
    bullets,   \* the bullets list of build_summary
    body,      \* the report returned by build_summary
    mail,      \* the SMTP connection: state, connections opened, messages sent
    printed,   \* "Report sent." was printed
    abort,     \* "" or where the unhandled exception that ended the run came from
    returned,  \* number of filings each category query returned (0 before it returns)
    queried,   \* category queries that have returned or raised
    hashSeed,  \* string-hash seed of the process, once list(set()) of two values made it observable
    apiKey,    \* whether the config module binds the name MOONSHOT_API_KEY
    run,       \* 0: a run against the live upstreams; 1, 2: first and second run against fixed stubs
    stub,      \* the replies the stubbed upstreams have given, by request
    firstBody, \* report of the first stubbed run
    enr        \* main.enrich: its input and its result
vars == <<pc, formIdx, hits, docNo, cur, bullets, body, mail, printed, abort, returned,
          queried, hashSeed, apiKey, run, stub, firstBody, enr>>

\* ------------------------------------------------------------------
\* Initial state: the process has imported its modules and is about to
\* enter build_summary.  config.py as shipped binds no MOONSHOT_API_KEY
\* (apiKey = FALSE); TRUE is a deployment whose config module binds it.
\* ------------------------------------------------------------------
\* a reply's filings with their places in the reply (pos is a ghost field)
Numbered(fs) == [i \in 1..Len(fs) |-> [doc |-> fs[i], pos |-> i]]
NoSeed == <<>>
InitCur == [doc |-> EmptyDict, pos |-> 0, cik |-> None, accession_no |-> None, company_name |-> "",
            tickers |-> <<>>, headline |-> "", ticker_str |-> <<>>, direction |-> "",
            text |-> "", filing_summary |-> <<>>, calls |-> NoCalls, failed |-> {}]
NoStub == [filings |-> <<>>, history |-> <<>>, info |-> <<>>, index |-> <<>>,
           document |-> <<>>, chat |-> <<>>]
NoBody == [head |-> <<>>, joined |-> <<>>]
NoMail == [conn |-> "none", opened |-> 0, sent |-> 0]
NoEnr == [ticker |-> "", info |-> Fail, result |-> [t |-> "idle"]]
Start(r) ==
    /\ pc = "query" /\ formIdx = 1 /\ hits = <<>> /\ docNo = 0 /\ cur = InitCur
    /\ bullets = <<>> /\ body = NoBody /\ mail = NoMail /\ printed = FALSE
    /\ abort = "" /\ returned = [i \in DOMAIN FORMS |-> 0] /\ queried = 0
    /\ hashSeed = NoSeed /\ apiKey \in BOOLEAN /\ run = r /\ stub = NoStub
    /\ firstBody = NoBody /\ enr = NoEnr
Init == Start(0)
\* the first category query has returned the one filing d
StartOn(d) ==
    /\ pc = "loop" /\ formIdx = 1 /\ hits = Numbered(<<d>>) /\ docNo = 0 /\ cur = InitCur
    /\ bullets = <<>> /\ body = NoBody /\ mail = NoMail /\ printed = FALSE
    /\ abort = "" /\ returned = [i \in DOMAIN FORMS |-> IF i = 1 THEN 1 ELSE 0]
    /\ queried = 1 /\ hashSeed = NoSeed /\ apiKey \in BOOLEAN /\ run = 0
    /\ stub = NoStub /\ firstBody = NoBody /\ enr = NoEnr

\* ------------------------------------------------------------------
\* Upstream replies: live upstreams answer each request afresh (run = 0);
\* a stub answers a request it has seen with the reply it gave before.
\* ------------------------------------------------------------------
Agrees(kind, key, r) == (run # 0 /\ key \in DOMAIN stub[kind]) => stub[kind][key] = r
Memo(st, kind, key, r) == IF run = 0 THEN st ELSE [st EXCEPT ![kind] = (key :> r) @@ @]
Crash(where) == pc' = "aborted" /\ abort' = where

\* ------------------------------------------------------------------
\* build_summary (edgar_scan.py 138-200)
\* ------------------------------------------------------------------
\* filings returned so far
Returned == LET n(i) == IF returned[i] < 0 THEN 0 ELSE returned[i] IN n(1) + n(2) + n(3)
\* mutant: the query wrapped in a try/except that goes on with no filings
QueryOf_Swallow(docs, max) ==
    /\ pc = "query"
    /\ \E r \in QueryReplies(docs, max - Returned) :
        /\ Agrees("filings", FORMS[formIdx], r)
        /\ stub' = Memo(stub, "filings", FORMS[formIdx], r)
        /\ IF r.t = "fail"
           THEN /\ returned' = [returned EXCEPT ![formIdx] = -1]
                /\ hits' = <<>>
           ELSE /\ hits' = Numbered(GetD(r.v, "filings", L(<<>>)).v)
                /\ returned' = [returned EXCEPT ![formIdx] = Len(hits')]
    /\ pc' = "loop" /\ abort' = abort
    /\ queried' = queried + 1
    /\ UNCHANGED <<formIdx, docNo, cur, bullets, body, mail, printed, hashSeed, apiKey,
                   run, firstBody, enr>>
\* lines 141-148: the query of one category; returned[i] = -1 records that it raised
QueryOf(docs, max) ==
    /\ pc = "query"
    /\ \E r \in QueryReplies(docs, max - Returned) :
        /\ Agrees("filings", FORMS[formIdx], r)
        /\ stub' = Memo(stub, "filings", FORMS[formIdx], r)
        /\ IF r.t = "fail"
           THEN /\ Crash("get_filings")
                /\ returned' = [returned EXCEPT ![formIdx] = -1]
                /\ hits' = hits
           ELSE /\ hits' = Numbered(GetD(r.v, "filings", L(<<>>)).v)
                /\ returned' = [returned EXCEPT ![formIdx] = Len(hits')]
                /\ pc' = "loop" /\ abort' = abort
    /\ queried' = queried + 1
    /\ UNCHANGED <<formIdx, docNo, cur, bullets, body, mail, printed, hashSeed, apiKey,
                   run, firstBody, enr>>
Query == QueryOf(RunDocs, MaxFilings)

\* lines 149-175: the next filing of the category and its fields
ExtractFields ==
    /\ pc = "loop" /\ hits # <<>>
    /\ \E seed \in Seeds :
        /\ hashSeed = NoSeed \/ hashSeed = seed
        /\ LET doc == Head(hits).doc
               e   == Extract(doc, seed)
           IN  IF IsRaise(e)
               THEN Crash(e.v) /\ UNCHANGED <<cur, hashSeed>>
               ELSE /\ cur' = [InitCur EXCEPT !.doc = doc, !.pos = Head(hits).pos,
                                  !.cik = e.cik,
                                  !.accession_no = e.accession_no,
                                  !.company_name = e.company_name, !.tickers = e.tickers,
                                  !.headline = e.headline, !.ticker_str = e.ticker_str]
                    /\ hashSeed' = IF Len(e.tickers) > 1 THEN seed ELSE hashSeed
                    /\ pc' = "sentiment" /\ abort' = abort
    /\ hits' = Tail(hits)
    /\ docNo' = docNo + 1
    /\ UNCHANGED <<formIdx, bullets, body, mail, printed, returned, queried, apiKey, run,
                   stub, firstBody, enr>>

\* line 176
QuickSentimentOf(replies) ==
    /\ pc = "sentiment"
    /\ IF cur.tickers = <<>>
       THEN cur' = [cur EXCEPT !.direction = NA] /\ stub' = stub
            /\ pc' = "text" /\ abort' = abort
       ELSE \E h \in replies :
              LET d == quick_sentiment(h) IN
              /\ Agrees("history", cur.tickers[1].v, h)
              /\ stub' = Memo(stub, "history", cur.tickers[1].v, h)
              /\ cur' = [cur EXCEPT !.direction = IF IsRaise(d) THEN @ ELSE d.v,
                            !.calls.history = @ + 1,
                            !.failed = IF h.t = "fail" THEN @ \cup {"history"} ELSE @]
              /\ IF IsRaise(d) THEN Crash("quick_sentiment")
                 ELSE pc' = "text" /\ abort' = abort
    /\ UNCHANGED <<formIdx, hits, docNo, bullets, body, mail, printed, returned,
                   queried, hashSeed, apiKey, run, firstBody, enr>>

QuickSentiment == QuickSentimentOf(RunHistory)

\* line 183: _get_filing_text(accession_no, cik, tickers[0] if tickers else "")
GetFilingText ==
    /\ pc = "text"
    /\ \E info \in InfoReplies, idx \in IndexReplies, docr \in DocReplies :
        LET ticker == IF cur.tickers # <<>> THEN cur.tickers[1].v ELSE ""
            r      == get_filing_text(cur.accession_no, cur.cik, ticker, info, idx, docr)
            s1     == IF r.calls.info = 1 THEN Memo(stub, "info", ticker, info) ELSE stub
            s2     == IF r.calls.index = 1 THEN Memo(s1, "index", r.url, idx) ELSE s1
            s3     == IF r.calls.document = 1 THEN Memo(s2, "document", idx.links[1], docr) ELSE s2
        IN  /\ r.calls.info = 1 => Agrees("info", ticker, info)
            /\ r.calls.index = 1 => Agrees("index", r.url, idx)
            /\ r.calls.document = 1 => Agrees("document", idx.links[1], docr)
            /\ stub' = s3
            /\ IF IsRaise(r) THEN Crash("_get_filing_text")
               ELSE pc' = "summarize" /\ abort' = abort
            /\ cur' = [cur EXCEPT !.text = r.text,
                          !.calls = [r.calls EXCEPT !.history = cur.calls.history],
                          !.failed = @ \cup
                              (IF r.calls.info = 1 /\ info.t = "fail" THEN {"cik"} ELSE {})
                              \cup (IF r.calls.index = 1 /\ idx.t = "fail" THEN {"index"} ELSE {})
                              \cup (IF r.calls.document = 1 /\ docr.t = "fail" THEN {"document"} ELSE {})]
    /\ UNCHANGED <<formIdx, hits, docNo, bullets, body, mail, printed, returned,
                   queried, hashSeed, apiKey, run, firstBody, enr>>

\* line 182: _summarize(...)
SummarizeOf(replies) ==
    /\ pc = "summarize"
    /\ \E chat \in replies :
        LET r == summarize(cur.text, apiKey, chat) IN
        /\ r.called = 1 => Agrees("chat", cur.text, chat)
        /\ stub' = IF r.called = 1 THEN Memo(stub, "chat", cur.text, chat) ELSE stub
        /\ IF IsRaise(r) THEN Crash("_summarize") ELSE pc' = "append" /\ abort' = abort
        /\ cur' = [cur EXCEPT !.filing_summary = r.summary, !.calls.chat = @ + r.called,
                      !.failed = IF cur.text # "" /\ (r.called = 0 \/ chat.t = "fail" \/ chat.content.t = "None")
                                 THEN @ \cup {"chat"} ELSE @]
    /\ UNCHANGED <<formIdx, hits, docNo, bullets, body, mail, printed, returned,
                   queried, hashSeed, apiKey, run, firstBody, enr>>

Summarize == SummarizeOf(RunChat)

\* lines 186-195: the bullet; src is a ghost field, the place of the filing
\* in the replies of the filing source
Bullet(c, form, src) ==
    [headline |-> Slice120(c.headline), company |-> c.company_name, form |-> form,
     date |-> Slice10(c.doc["filedAt"].v), tickers |-> c.ticker_str,
     summary |-> c.filing_summary, direction |-> c.direction, best_way |-> BestWay,
     src |-> src]
\* mutant: bullets.insert(0, ...)
AppendTo_Front(bs, b) == <<b>> \o bs
AppendTo(bs, b) == Append(bs, b)
AppendBullet ==
    /\ pc = "append"
    /\ bullets' = AppendTo(bullets, Bullet(cur, FORMS[formIdx], <<formIdx, cur.pos>>))
    /\ pc' = "loop"
    /\ UNCHANGED <<formIdx, hits, docNo, cur, body, mail, printed, abort, returned,
                   queried, hashSeed, apiKey, run, stub, firstBody, enr>>

\* the inner loop is exhausted: the next category, or the end of the outer loop
EndCategory ==
    /\ pc = "loop" /\ hits = <<>>
    /\ IF formIdx < Len(FORMS)
       THEN formIdx' = formIdx + 1 /\ pc' = "query"
       ELSE formIdx' = formIdx /\ pc' = "assemble"
    /\ docNo' = 0
    /\ UNCHANGED <<hits, cur, bullets, body, mail, printed, abort, returned, queried,
                   hashSeed, apiKey, run, stub, firstBody, enr>>

\* lines 196-200; "\n".join(bullets) is kept as the list joined
NoFilingsBody == [head |-> <<"No 8-K, 13D/13G, or DEF 14A filings found for ", YESTERDAY, ".">>,
                  joined |-> <<>>]
ReportBody(bs) == [head |-> <<"EDGAR scan for ", YESTERDAY, ":\n\n">>, joined |-> bs]
\* mutant: no "no filings" case
BodyOf_AlwaysReport(bs) == ReportBody(bs)
BodyOf(bs) == IF bs = <<>> THEN NoFilingsBody ELSE ReportBody(bs)
\* the frame of build_summary ends with the return: its locals are gone
Assemble ==
    /\ pc = "assemble"
    /\ body' = BodyOf(bullets)
    /\ pc' = "returned"
    /\ cur' = InitCur /\ bullets' = <<>> /\ docNo' = 0
    /\ UNCHANGED <<formIdx, hits, mail, printed, abort, returned,
                   queried, hashSeed, apiKey, run, stub, firstBody, enr>>

\* ------------------------------------------------------------------
\* email_report (edgar_scan.py 100-108) and __main__ (202-205).  Leaving
\* the with block, normally or by an exception, runs SMTP.__exit__, which
\* closes the connection.
\* ------------------------------------------------------------------
Closed(m) == [m EXCEPT !.conn = "closed"]
\* line 106: SMTP_SSL(...) connects; a failure raises before the with block is entered
EmailConnect ==
    /\ pc = "returned"
    /\ \E ok \in BOOLEAN :
        IF ok THEN mail' = [mail EXCEPT !.conn = "open", !.opened = @ + 1]
                   /\ pc' = "login" /\ abort' = abort
        ELSE mail' = mail /\ Crash("smtp_connect")
    /\ UNCHANGED <<formIdx, hits, docNo, cur, bullets, body, printed, returned, queried,
                   hashSeed, apiKey, run, stub, firstBody, enr>>
\* line 107
EmailLogin ==
    /\ pc = "login"
    /\ \E ok \in BOOLEAN :
        IF ok THEN mail' = mail /\ pc' = "sendmail" /\ abort' = abort
        ELSE mail' = Closed(mail) /\ Crash("smtp_login")
    /\ UNCHANGED <<formIdx, hits, docNo, cur, bullets, body, printed, returned, queried,
                   hashSeed, apiKey, run, stub, firstBody, enr>>
\* mutant: sendmail outside a with block, the connection left open when it raises
EmailSend_NoExit ==
    /\ pc = "sendmail"
    /\ \E ok \in BOOLEAN :
        IF ok THEN mail' = [mail EXCEPT !.sent = @ + 1] /\ pc' = "exit" /\ abort' = abort
        ELSE mail' = mail /\ Crash("smtp_send")
    /\ UNCHANGED <<formIdx, hits, docNo, cur, bullets, body, printed, returned, queried,
                   hashSeed, apiKey, run, stub, firstBody, enr>>
\* line 108
EmailSend ==
    /\ pc = "sendmail"
    /\ \E ok \in BOOLEAN :
        IF ok THEN mail' = [mail EXCEPT !.sent = @ + 1] /\ pc' = "exit" /\ abort' = abort
        ELSE mail' = Closed(mail) /\ Crash("smtp_send")
    /\ UNCHANGED <<formIdx, hits, docNo, cur, bullets, body, printed, returned, queried,
                   hashSeed, apiKey, run, stub, firstBody, enr>>
\* the end of the with block: QUIT, then close; a reply other than 221 raises
EmailExit ==
    /\ pc = "exit"
    /\ mail' = Closed(mail)
    /\ \E ok \in BOOLEAN :
        IF ok THEN pc' = "print" /\ abort' = abort ELSE Crash("smtp_quit")
    /\ UNCHANGED <<formIdx, hits, docNo, cur, bullets, body, printed, returned, queried,
                   hashSeed, apiKey, run, stub, firstBody, enr>>
\* line 205
PrintSent ==
    /\ pc = "print"
    /\ printed' = TRUE
    /\ pc' = "done"
    /\ UNCHANGED <<formIdx, hits, docNo, cur, bullets, body, mail, abort, returned, queried,
                   hashSeed, apiKey, run, stub, firstBody, enr>>

PerFiling == ExtractFields \/ QuickSentiment \/ GetFilingText \/ Summarize \/ AppendBullet
BuildSummary == PerFiling \/ EndCategory \/ Assemble
Next ==
    \/ Query \/ BuildSummary
    \/ EmailConnect \/ EmailLogin \/ EmailSend \/ EmailExit \/ PrintSent
Spec == Init /\ [][Next]_vars

\* ------------------------------------------------------------------
\* Two runs of build_summary, each in a process of its own, against the
\* same stubbed upstreams
\* ------------------------------------------------------------------
InitTwice == Start(1)
MaxStubbed == 1
QueryTwice == QueryOf(TwiceDocs, MaxStubbed)
\* the second process starts: fresh locals, a fresh hash seed, the same stubs
Rerun ==
    /\ pc = "returned" /\ run = 1
    /\ firstBody' = body
    /\ run' = 2
    /\ pc' = "query" /\ formIdx' = 1 /\ hits' = <<>> /\ docNo' = 0 /\ cur' = InitCur
    /\ bullets' = <<>> /\ body' = NoBody /\ returned' = [i \in DOMAIN FORMS |-> 0]
    /\ queried' = 0 /\ hashSeed' = NoSeed
    /\ UNCHANGED <<mail, printed, abort, apiKey, stub, enr>>
NextTwice == QueryTwice \/ BuildSummary \/ Rerun
SpecTwice == InitTwice /\ [][NextTwice]_vars

\* ------------------------------------------------------------------
\* The field extraction over every shape of filing record
\* ------------------------------------------------------------------
InitFields == \E d \in Filings : StartOn(d) /\ apiKey = FALSE
NextFields == ExtractFields
SpecFields == InitFields /\ [][NextFields]_vars

\* ------------------------------------------------------------------
\* One filing through the stages of the inner loop, over every reply of
\* the upstreams
\* ------------------------------------------------------------------
InitFiling == \E d \in RunDocs \cup TwiceDocs : StartOn(d)
NextFiling ==
    \/ ExtractFields \/ QuickSentimentOf(HistoryReplies) \/ GetFilingText
    \/ SummarizeOf(ChatReplies) \/ AppendBullet
SpecFiling == InitFiling /\ [][NextFiling]_vars

\* ------------------------------------------------------------------
\* main.enrich (main.py 21-33); recommendationMean in tenths, the magnitude
\* strings in ASCII
\* ------------------------------------------------------------------
BullishBelow == 25
BearishAbove == 35
DefaultMean == 30
Upper(tk) == CASE tk = "aaa" -> "AAA" [] tk = "brk.b" -> "BRK.B" [] OTHER -> tk
\* tk.info: the lookup raises, or None, or a dict
Means == 10..50
InfoValues ==
    {Fail, [t |-> "None"], [t |-> "dict", v |-> EmptyDict],
     [t |-> "dict", v |-> [symbol |-> S("AAA")]],
     [t |-> "dict", v |-> [recommendationMean |-> None]]}
    \cup {[t |-> "dict", v |-> [recommendationMean |-> [t |-> "num", v |-> n]]] : n \in Means}
enrich(ticker, info) ==
    LET fwd == [t |-> "dict", direction |-> "NEUTRAL", magnitude |-> "+/-0-5%", ticker |-> Upper(ticker)]
        rm  == GetD(info.v, "recommendationMean", [t |-> "num", v |-> DefaultMean])
    IN  IF info.t = "fail" THEN Raise("lookup")
        ELSE IF info.t = "None" \/ info.v = EmptyDict THEN fwd
        ELSE IF rm.t # "num" THEN Raise("TypeError")
        ELSE IF rm.v < BullishBelow
             THEN [fwd EXCEPT !.direction = "BULLISH", !.magnitude = "+5-15%"]
        ELSE IF rm.v > BearishAbove
             THEN [fwd EXCEPT !.direction = "BEARISH", !.magnitude = "-5-15%"]
        ELSE fwd
InitEnrich ==
    /\ pc = "enrich" /\ formIdx = 1 /\ hits = <<>> /\ docNo = 0 /\ cur = InitCur
    /\ bullets = <<>> /\ body = NoBody /\ mail = NoMail /\ printed = FALSE
    /\ abort = "" /\ returned = [i \in DOMAIN FORMS |-> 0] /\ queried = 0
    /\ hashSeed = NoSeed /\ apiKey = FALSE /\ run = 0 /\ stub = NoStub
    /\ firstBody = NoBody
    /\ enr \in {[ticker |-> tk, info |-> i, result |-> [t |-> "pending"]] :
                  tk \in {"aaa", "AAA", "brk.b"}, i \in InfoValues}
Enrich ==
    /\ pc = "enrich" /\ enr.result.t = "pending"
    /\ enr' = [enr EXCEPT !.result = enrich(enr.ticker, enr.info)]
    /\ pc' = "enriched"
    /\ UNCHANGED <<formIdx, hits, docNo, cur, bullets, body, mail, printed, abort, returned,
                   queried, hashSeed, apiKey, run, stub, firstBody>>
NextEnrich == Enrich
SpecEnrich == InitEnrich /\ [][NextEnrich]_vars

\* ==================================================================
\* Properties
\* ==================================================================
StageNames == {"quick_sentiment", "_get_filing_text", "_summarize"}
\* the last bullet appended is the one of cur
Appended == pc \in {"loop", "query", "assemble"} /\ cur.pos > 0
PastSentiment == pc \in {"text", "summarize", "append"} \/ Appended
PastText == pc \in {"summarize", "append"} \/ Appended
PastSummarize == pc = "append" \/ Appended
TextFailures == {"cik", "index", "document"}
Last(xs) == xs[Len(xs)]
Assembled == body # NoBody
QueryRaised == \E i \in DOMAIN returned : returned[i] < 0

\* C1: no failure of an enrichment stage (ticker-to-CIK lookup, price history,
\* index or document fetch, completion call) leaves the per-filing step: the
\* run never ends inside a stage, the field of a failed stage holds its
\* fallback text, and every filing whose stages have run has added exactly
\* one bullet, which shows those fields.
C1_StageFailuresIsolated ==
    /\ abort \notin StageNames
    /\ (PastSentiment /\ "history" \in cur.failed) => cur.direction = DirectionUnclear
    /\ (PastText /\ cur.failed \cap TextFailures # {}) => cur.text = ""
    /\ PastSummarize =>
        /\ cur.failed \cap TextFailures # {} => cur.filing_summary = <<UnableToRetrieve>>
        /\ "chat" \in cur.failed =>
              Len(cur.filing_summary) = 3 /\ cur.filing_summary[1] = "Summary unavailable ("
    /\ pc \in {"sentiment", "text", "summarize", "append"} =>
          Len(bullets) = Returned - Len(hits) - 1
    /\ pc \in {"loop", "query", "assemble"} => Len(bullets) = Returned - Len(hits)
    /\ Appended => /\ Last(bullets).direction = cur.direction
                   /\ Last(bullets).summary = cur.filing_summary
C1_Witness ==
    /\ pc = "loop" /\ Len(bullets) = 2
    /\ bullets[1].direction = DirectionUnclear /\ bullets[1].summary = <<UnableToRetrieve>>
    /\ cur.failed = {"history", "chat"}
    /\ bullets[2].direction = DirectionUnclear
    /\ bullets[2].summary[1] = "Summary unavailable ("

\* C2 (as claimed): whatever optional fields of a filing are absent, empty or
\* null, its fields are extracted without an exception, company and tickers
\* degrade to "n/a" and the headline to "No headline".
Blank(d, k) == ~Truthy(Get(d, k))
NoFilerWith(d, k) ==
    Blank(d, "filers") \/ \A i \in DOMAIN d["filers"].v : Blank(d["filers"].v[i], k)
C2_OptionalFieldsDegrade ==
    /\ abort \notin {"get_tickers_from_filing", "headline", "join"}
    /\ pc = "sentiment" =>
        /\ (Blank(cur.doc, "description") /\ Blank(cur.doc, "items"))
              => cur.headline = NoHeadline
        /\ (Blank(cur.doc, "companyName") /\ Blank(cur.doc, "issuers")
            /\ Blank(cur.doc, "filers")) => cur.company_name = NA
        /\ (Blank(cur.doc, "ticker") /\ NoFilerWith(cur.doc, "ticker"))
              => cur.ticker_str = <<NA>>

\* C3 (as claimed): a second run of build_summary against the same stubbed
\* upstreams returns the report the first run returned.
C3_SameReportTwice == (run = 2 /\ pc = "returned") => body = firstBody

\* C4: a category query that raises ends the run with that error, with no
\* mail connection opened, nothing sent and "Report sent." not printed; mail
\* is opened and sent only after all three queries have returned and the
\* body is assembled from every filing; "Report sent." is printed only after
\* the one send returned and the connection was left without error.
C4_QueryFailureIsFatal ==
    /\ QueryRaised => pc = "aborted" /\ abort = "get_filings" /\ mail = NoMail /\ ~printed
    /\ abort = "get_filings" => QueryRaised
    /\ (mail.opened > 0 \/ mail.sent > 0) =>
          /\ queried = Len(FORMS)
          /\ \A i \in DOMAIN returned : returned[i] >= 0
          /\ Assembled /\ Len(body.joined) = Returned
    /\ printed => mail.sent = 1 /\ abort = "" /\ pc = "done"
C4_Witness ==
    /\ pc = "aborted" /\ abort = "get_filings"
    /\ returned[3] = -1 /\ Len(bullets) = 2 /\ mail = NoMail /\ ~printed

\* C5: the mail connection is opened at most once, only after build_summary
\* has returned, carries at most one send, is open only inside the with
\* block, and is closed in every terminal state of the run (normal return,
\* login failure, send failure); a run that ends normally has sent exactly once.
C5_ConnectionScoped ==
    /\ mail.opened <= 1 /\ mail.sent <= 1
    /\ mail.opened = 1 => Assembled
    /\ mail.conn = "open" <=> pc \in {"login", "sendmail", "exit"}
    /\ (mail.opened = 1 /\ pc \in {"print", "done", "aborted"}) => mail.conn = "closed"
    /\ mail.opened = 0 => mail.conn = "none" /\ mail.sent = 0
    /\ pc = "done" => mail.sent = 1 /\ mail.opened = 1
C5_Witness ==
    pc = "aborted" /\ abort = "smtp_send" /\ mail.conn = "closed" /\ mail.sent = 0

\* C6: with no filing returned by any of the three queries the body is
\* exactly the sentence "No 8-K, 13D/13G, or DEF 14A filings found for
\* <date>.", with no header and no bullet; with at least one filing returned
\* the body is the header followed by bullets, never that sentence.
C6_NoFilingsSentence ==
    Assembled =>
        IF Returned = 0
        THEN body = [head |-> <<"No 8-K, 13D/13G, or DEF 14A filings found for ", YESTERDAY, ".">>,
                     joined |-> <<>>]
        ELSE /\ body.head = <<"EDGAR scan for ", YESTERDAY, ":\n\n">>
             /\ body.joined # <<>>
C6_Witness ==
    /\ pc = "returned" /\ queried = 3 /\ Returned = 0
    /\ body.head[1] = "No 8-K, 13D/13G, or DEF 14A filings found for "

\* C7: _summarize on empty text returns exactly "Unable to retrieve filing
\* text." without calling the completion service; for one filing the service
\* is called at most once, and only with non-empty text from _get_filing_text.
C7_SummarizeGuard ==
    /\ cur.calls.chat <= 1
    /\ cur.calls.chat = 1 => cur.text # ""
    /\ (PastSummarize /\ cur.text = "") =>
          cur.filing_summary = <<UnableToRetrieve>> /\ cur.calls.chat = 0
    /\ (PastSummarize /\ cur.text # "") => cur.filing_summary # <<UnableToRetrieve>>
C7_Witness ==
    /\ pc = "append" /\ apiKey /\ cur.text = "" /\ cur.calls.document = 1
    /\ cur.filing_summary = <<UnableToRetrieve>> /\ cur.calls.chat = 0

\* C8 (as claimed): get_tickers_from_filing never raises; its list has no
\* duplicate and holds exactly the tickers of the filer sub-records when a
\* filer has one, otherwise exactly the top-level ticker when present,
\* otherwise nothing.
FilerTickers(d) ==
    LET fs == GetD(d, "filers", L(<<>>)).v
    IN  {fs[i]["ticker"] : i \in {j \in DOMAIN fs : "ticker" \in DOMAIN fs[j]}}
ClaimedTickers(d) ==
    IF FilerTickers(d) # {} THEN FilerTickers(d)
    ELSE IF "ticker" \in DOMAIN d THEN {d["ticker"]} ELSE {}
C8_TickerListTotal ==
    /\ abort # "get_tickers_from_filing"
    /\ pc = "sentiment" =>
        /\ Cardinality(SeqToSet(cur.tickers)) = Len(cur.tickers)
        /\ SeqToSet(cur.tickers) = ClaimedTickers(cur.doc)

\* C9 (as claimed): main.enrich returns a direction in {BULLISH, BEARISH,
\* NEUTRAL} for every ticker and never raises: a failed lookup, no info, or
\* info whose recommendationMean is missing or null gives NEUTRAL.
NoMean(info) ==
    \/ info.t \in {"fail", "None"}
    \/ "recommendationMean" \notin DOMAIN info.v
    \/ info.v["recommendationMean"].t = "None"
C9_EnrichNeverRaises ==
    pc = "enriched" =>
        /\ ~IsRaise(enr.result)
        /\ enr.result.direction \in {"BULLISH", "BEARISH", "NEUTRAL"}
        /\ NoMean(enr.info) => enr.result.direction = "NEUTRAL"

\* C10: the bullets are those of the filings returned, one each, by category
\* in the order 8-K, 13D/13G, DEF 14A and inside a category in the order of
\* the reply; a filing with no ticker gets the sentiment "n/a" without any
\* call of the market-data client, and only a filing with a ticker has its
\* price history looked up.
PlacesOf(bs) == [i \in 1..Len(bs) |-> bs[i].src]
PlacesIn(f) == [i \in 1..(IF returned[f] < 0 THEN 0 ELSE returned[f]) |-> <<f, i>>]
PlacesReturned == PlacesIn(1) \o PlacesIn(2) \o PlacesIn(3)
C10_OneBulletPerFilingInOrder ==
    /\ Assembled =>
        /\ PlacesOf(body.joined) = PlacesReturned
        /\ \A i \in DOMAIN body.joined :
              /\ body.joined[i].form = FORMS[body.joined[i].src[1]]
              /\ body.joined[i].tickers = <<NA>> => body.joined[i].direction = NA
    /\ pc \notin {"aborted", "enrich", "enriched"} /\ ~Assembled =>
          PlacesOf(bullets) = SubSeq(PlacesReturned, 1, Len(bullets))
    /\ PastSentiment =>
          IF cur.tickers = <<>>
          THEN cur.direction = NA /\ cur.calls.history = 0 /\ cur.calls.info = 0
          ELSE cur.calls.history = 1 /\ cur.direction # NA
    /\ Appended => Last(bullets).src[2] = cur.pos /\ Last(bullets).tickers = cur.ticker_str
C10_Witness ==
    /\ pc = "returned" /\ Len(body.joined) = 2
    /\ body.joined[1].src = <<1, 1>> /\ body.joined[2].src = <<1, 2>>
    /\ body.joined[1].direction = NA /\ body.joined[2].direction # NA
====
